---- MODULE Spec2Model ----
(***************************************************************************)
(* Model of output.py: the topic aggregator (count_topics_from_csv), the   *)
(* ranking (generate_wordcloud_data), the three writers and main.          *)
(*                                                                         *)
(* A text cell is a sequence of one-character strings, so that split,      *)
(* strip and lower are computed character by character.  A cell of the     *)
(* data frame is a record [kind, s, id]:                                   *)
(*   kind = "str"  a Python str with text s                                *)
(*   kind = "num"  a numeric cell; s is the text str() gives for it        *)
(*   kind = "nan"  a missing cell (float NaN); id names the float object,  *)
(*                 two NaN cells may or may not be the same object         *)
(***************************************************************************)
EXTENDS Integers, Sequences, FiniteSets, TLC

VARIABLES pc, input_exists, df, idx, topic_map, top_n, wordcloud_data,
          json_file, csv_file, excel_file, console

vars == <<pc, input_exists, df, idx, topic_map, top_n, wordcloud_data,
          json_file, csv_file, excel_file, console>>

----------------------------------------------------------------------------
(* Bounds of the model *)

MaxRows == 2

MaxWide == 17

MaxTopN == 17

(* Program constants *)

TOP_N == 15

REPO_LIST_MAX == 10

----------------------------------------------------------------------------
(* Python str operations *)

Uppercase == <<"A","B","C","D","E","F","G","H","I","J","K","L","M",
               "N","O","P","Q","R","S","T","U","V","W","X","Y","Z">>

Lowercase == <<"a","b","c","d","e","f","g","h","i","j","k","l","m",
               "n","o","p","q","r","s","t","u","v","w","x","y","z">>

Whitespace == {" ", "\t", "\n", "\r"}

Min(a, b) == IF a <= b THEN a ELSE b

lower_char(c) ==
    IF \E i \in 1..Len(Uppercase) : Uppercase[i] = c
    THEN Lowercase[CHOOSE i \in 1..Len(Uppercase) : Uppercase[i] = c]
    ELSE c

(* str.lower() *)
lower(s) == [i \in 1..Len(s) |-> lower_char(s[i])]

(* str.strip(): leading and trailing whitespace removed *)
strip(s) ==
    LET keep == {i \in 1..Len(s) : s[i] \notin Whitespace}
    IN  IF keep = {} THEN <<>>
        ELSE LET lo == CHOOSE i \in keep : \A j \in keep : i <= j
                 hi == CHOOSE i \in keep : \A j \in keep : j <= i
             IN  SubSeq(s, lo, hi)

RECURSIVE split_from(_, _, _)
split_from(s, i, cur) ==
    IF i > Len(s) THEN <<cur>>
    ELSE IF s[i] = "," THEN <<cur>> \o split_from(s, i + 1, <<>>)
    ELSE split_from(s, i + 1, Append(cur, s[i]))

(* str.split(','): every piece between commas, empty ones included *)
split(s) == split_from(s, 1, <<>>)

RECURSIVE SelectNonEmpty(_)
SelectNonEmpty(ps) ==
    IF ps = <<>> THEN <<>>
    ELSE IF Len(Head(ps)) > 0 THEN <<Head(ps)>> \o SelectNonEmpty(Tail(ps))
    ELSE SelectNonEmpty(Tail(ps))

(* [t.strip() for t in str(topics_str).split(',') if t.strip()] *)
parse_topics(s) ==
    LET parts == split(s)
    IN  SelectNonEmpty([i \in 1..Len(parts) |-> strip(parts[i])])

----------------------------------------------------------------------------
(* Cells of the data frame *)

Str(s) == [kind |-> "str", s |-> s, id |-> 0]

Num(s) == [kind |-> "num", s |-> s, id |-> 0]

NaN(i) == [kind |-> "nan", s |-> <<>>, id |-> i]

(* the default of row.get(column, '') *)
EmptyStr == Str(<<>>)

(* pd.isna(cell) *)
isna(cell) == cell.kind = "nan"

(* bool(cell): a str is true when non-empty; float NaN is non-zero, so true *)
truthy(cell) ==
    CASE cell.kind = "str" -> cell.s # <<>>
      [] cell.kind = "nan" -> TRUE
      [] OTHER -> TRUE

py_in_Never(x, list) == FALSE

(* x in list: Python compares by identity, then by ==.  Two str are equal when
   their text is; a NaN equals nothing, so it is found only as the same object. *)
py_in(x, list) == \E i \in 1..Len(list) : list[i] = x

(* row.get(column, ''): the cell, or '' when the frame has no such column *)
row_get(frame, row, column) ==
    IF column \in frame.columns THEN row[column] ELSE EmptyStr

----------------------------------------------------------------------------
(* count_topics_from_csv: the dict topic_map is a sequence of entries in
   insertion order, each [key, topic, count, repos], keys distinct. *)

has_key(map, key) == \E i \in 1..Len(map) : map[i].key = key

index_of(map, key) == CHOOSE i \in 1..Len(map) : map[i].key = key

add_topic_Overwrite(map, topic, repo_name) ==
    LET key == lower(topic)
        m1  == IF has_key(map, key)
               THEN [map EXCEPT ![index_of(map, key)].topic = topic]
               ELSE Append(map, [key |-> key, topic |-> topic,
                                 count |-> 0, repos |-> <<>>])
        i   == index_of(m1, key)
        m2  == [m1 EXCEPT ![i].count = @ + 1]
    IN  IF truthy(repo_name) /\ ~py_in(repo_name, m2[i].repos)
        THEN [m2 EXCEPT ![i].repos = Append(@, repo_name)]
        ELSE m2

add_topic_OncePerRepo(map, topic, repo_name) ==
    LET key == lower(topic)
        m1  == IF has_key(map, key) THEN map
               ELSE Append(map, [key |-> key, topic |-> topic,
                                 count |-> 0, repos |-> <<>>])
        i   == index_of(m1, key)
    IN  IF truthy(repo_name) /\ ~py_in(repo_name, m1[i].repos)
        THEN [m1 EXCEPT ![i].repos = Append(@, repo_name),
                        ![i].count = @ + 1]
        ELSE IF truthy(repo_name) THEN m1
        ELSE [m1 EXCEPT ![i].count = @ + 1]

add_topic_Prepend(map, topic, repo_name) ==
    LET key == lower(topic)
        m1  == IF has_key(map, key) THEN map
               ELSE Append(map, [key |-> key, topic |-> topic,
                                 count |-> 0, repos |-> <<>>])
        i   == index_of(m1, key)
        m2  == [m1 EXCEPT ![i].count = @ + 1]
    IN  IF truthy(repo_name) /\ ~py_in(repo_name, m2[i].repos)
        THEN [m2 EXCEPT ![i].repos = <<repo_name>> \o @]
        ELSE m2

(* lines 66-75: the body of the loop over the topics of a row *)
add_topic(map, topic, repo_name) ==
    LET key == lower(topic)
        m1  == IF has_key(map, key) THEN map
               ELSE Append(map, [key |-> key, topic |-> topic,
                                 count |-> 0, repos |-> <<>>])
        i   == index_of(m1, key)
        m2  == [m1 EXCEPT ![i].count = @ + 1]
    IN  IF truthy(repo_name) /\ ~py_in(repo_name, m2[i].repos)
        THEN [m2 EXCEPT ![i].repos = Append(@, repo_name)]
        ELSE m2

RECURSIVE add_topics(_, _, _)
(* lines 65-75: for topic in topics *)
add_topics(map, topics, repo_name) ==
    IF topics = <<>> THEN map
    ELSE LET next == add_topic(map, Head(topics), repo_name)
         IN  \* the test makes TLC compute next before it goes on
             IF Len(next) >= 0 THEN add_topics(next, Tail(topics), repo_name)
             ELSE next

skip_row_NumToo(topics_str) ==
    isna(topics_str) \/ topics_str = EmptyStr \/ topics_str.kind = "num"

(* line 59: the row is skipped *)
skip_row(topics_str) == isna(topics_str) \/ topics_str = EmptyStr

(* lines 56-75: the body of the loop over the rows *)
process_row(map, frame, row) ==
    LET repo_name  == row_get(frame, row, "repo_name")
        topics_str == row_get(frame, row, "topics")
    IN  IF skip_row(topics_str) THEN map
        ELSE add_topics(map, parse_topics(topics_str.s), repo_name)

RECURSIVE count_rows(_, _, _)
count_rows(map, frame, i) ==
    IF i > Len(frame.rows) THEN map
    ELSE LET next == process_row(map, frame, frame.rows[i])
         IN  \* the test makes TLC compute next before it goes on
             IF Len(next) >= 0 THEN count_rows(next, frame, i + 1) ELSE next

(* lines 47-77: the whole function, from the frame read *)
count_topics(frame) == count_rows(<<>>, frame, 1)

----------------------------------------------------------------------------
(* generate_wordcloud_data *)

RECURSIVE insert_desc_Unstable(_, _)
insert_desc_Unstable(sorted, e) ==
    IF sorted = <<>> THEN <<e>>
    ELSE IF Head(sorted).count > e.count
         THEN <<Head(sorted)>> \o insert_desc_Unstable(Tail(sorted), e)
         ELSE <<e>> \o sorted

RECURSIVE insert_desc(_, _)
(* e placed after every element whose count is >= its own: equal counts keep
   their order of arrival, as list.sort(key=count, reverse=True) keeps it *)
insert_desc(sorted, e) ==
    IF sorted = <<>> THEN <<e>>
    ELSE IF Head(sorted).count >= e.count
         THEN <<Head(sorted)>> \o insert_desc(Tail(sorted), e)
         ELSE <<e>> \o sorted

RECURSIVE sort_from(_, _, _)
sort_from(list, i, acc) ==
    IF i > Len(list) THEN acc
    ELSE LET next == insert_desc(acc, list[i])
         IN  \* the test makes TLC compute next before it goes on
             IF Len(next) >= 0 THEN sort_from(list, i + 1, next) ELSE next

(* lines 92-93 and 162-163: list(topic_map.values()) sorted by count,
   descending, stable *)
sort_by_count(list) == sort_from(list, 1, <<>>)

(* line 96: stats_list[:top_n], top_n >= 0 *)
take(list, n) == SubSeq(list, 1, Min(n, Len(list)))

(* lines 98-106 *)
ranked_entry(stat) ==
    [name |-> stat.topic, value |-> stat.count, count |-> stat.count,
     repos |-> stat.repos]

(* lines 80-106 *)
generate_wordcloud_data(map, n) ==
    LET top_n_list == take(sort_by_count(map), n)
    IN  [i \in 1..Len(top_n_list) |-> ranked_entry(top_n_list[i])]

----------------------------------------------------------------------------
(* The writers.  A file is [state, content]: absent, partial (opened for
   writing and not completed) or written. *)

Absent == [state |-> "absent", content |-> <<>>]

Partial == [state |-> "partial", content |-> <<>>]

Written(content) == [state |-> "written", content |-> content]

(* lines 111-119; the generation timestamp is left out *)
json_output(data, map) ==
    [data  |-> data,
     stats |-> [totalTopics |-> Len(map), top15Topics |-> Len(data)]]

(* lines 133-140 *)
csv_output(data) ==
    [header |-> <<"name", "value", "count", "repoCount">>,
     rows   |-> [i \in 1..Len(data) |->
                   [name |-> data[i].name, value |-> data[i].value,
                    count |-> data[i].count,
                    repoCount |-> Len(data[i].repos)]]]

(* ', '.join(list) needs every item to be a str, and raises TypeError if not *)
join_raises(list) == \E i \in 1..Len(list) : list[i].kind # "str"

RECURSIVE join(_)
join(list) ==
    IF list = <<>> THEN <<>>
    ELSE IF Len(list) = 1 THEN list[1].s
    ELSE list[1].s \o <<",", " ">> \o join(Tail(list))

(* lines 150-159 and 164-173: one sheet, from entries [label, count, repos] *)
sheet_rows(items) ==
    [i \in 1..Len(items) |->
       [rank       |-> i,
        label      |-> items[i].label,
        count      |-> items[i].count,
        repo_count |-> Len(items[i].repos),
        repo_list  |-> join(take(items[i].repos, REPO_LIST_MAX))]]

sheet_raises(items) ==
    \E i \in 1..Len(items) : join_raises(take(items[i].repos, REPO_LIST_MAX))

as_items_of_data(data) ==
    [i \in 1..Len(data) |->
       [label |-> data[i].name, count |-> data[i].count,
        repos |-> data[i].repos]]

as_items_of_stats(stats) ==
    [i \in 1..Len(stats) |->
       [label |-> stats[i].topic, count |-> stats[i].count,
        repos |-> stats[i].repos]]

all_stats_Unsorted(map) == map

(* lines 161-163 *)
all_stats(map) == sort_by_count(map)

(* lines 150-173: the two data frames are built before the file is opened *)
excel_raises(data, map) ==
    sheet_raises(as_items_of_data(data))
      \/ sheet_raises(as_items_of_stats(all_stats(map)))

excel_output(data, map) ==
    [sheet1 |-> sheet_rows(as_items_of_data(data)),
     sheet2 |-> sheet_rows(as_items_of_stats(all_stats(map)))]

----------------------------------------------------------------------------
(* The data frames pd.read_csv can give.  A column of the file is absent, or
   numeric (numbers and NaN), or text (non-empty str and NaN: read_csv reads an
   empty field as NaN). *)

RepoA == Str(<<"r","e","p","o","A">>)

RepoB == Str(<<"r","e","p","o","B">>)

TopicSamples ==
    { Str(<<"g","o">>),
      Str(<<" "," ","G","o"," ",",","G","o",",","g","o"," ">>),
      Str(<<"R","u","s","t",","," ","C","L","I">>),
      Str(<<"r","u","s","t",","," ","n","e","t","w","o","r","k","i","n","g">>),
      Str(<<" ",","," ",",">>) }

FewTopicSamples ==
    { Str(<<"G","o",",","g","o">>),
      Str(<<"R","u","s","t",","," ","C","L","I">>) }

NumCell == Num(<<"7",".","0">>)

TopicCells(kind, strs) ==
    CASE kind = "absent"  -> {EmptyStr}
      [] kind = "numeric" -> {NaN(1), NumCell}
      [] kind = "text"    -> {NaN(1)} \cup strs

RepoCells(kind) ==
    CASE kind = "absent" -> {EmptyStr}
      [] kind = "text"   -> {NaN(1), NaN(2), RepoA, RepoB}

ColumnsOf(tk, rk) ==
    (IF tk = "absent" THEN {} ELSE {"topics"})
      \cup (IF rk = "absent" THEN {} ELSE {"repo_name"})

FramesOver(strs) ==
    UNION { UNION { { [columns |-> ColumnsOf(tk, rk), rows |-> r] :
                        r \in UNION { [1..k -> [repo_name : RepoCells(rk),
                                                topics : TopicCells(tk, strs)]] :
                                      k \in 0..MaxRows } } :
                    tk \in {"absent", "numeric", "text"} } :
            rk \in {"absent", "text"} }

(* Frames with many distinct labels: label i is two letters, and is listed in
   the rows 1..c(i), with c(i) in 1..m set by the pattern (p, b) *)
WideLetters == <<"a", "b", "c", "d", "e">>

WideLabel(i) ==
    << WideLetters[((i - 1) \div Len(WideLetters)) + 1],
       WideLetters[((i - 1) % Len(WideLetters)) + 1] >>

WideCount(i, p, b, m) == 1 + (((i \div p) + b) % m)

RECURSIVE WideText(_, _, _, _, _, _)
WideText(i, n, j, p, b, m) ==
    IF i > n THEN <<>>
    ELSE LET rest == WideText(i + 1, n, j, p, b, m)
         IN  IF WideCount(i, p, b, m) < j THEN rest
             ELSE IF rest = <<>> THEN WideLabel(i)
             ELSE WideLabel(i) \o <<",", " ">> \o rest

WideFrame(n, p, b, m) ==
    [columns |-> {"repo_name", "topics"},
     rows |-> [j \in 1..m |->
                 [repo_name |-> IF j % 2 = 1 THEN RepoA ELSE RepoB,
                  topics |-> LET text == WideText(1, n, j, p, b, m)
                             IN  IF text = <<>> THEN NaN(1) ELSE Str(text)]]]

WideFrames ==
    { WideFrame(n, p, b, m) :
        n \in 0..MaxWide, p \in 1..(MaxRows + 1),
        b \in 0..(MaxRows - 1), m \in 1..MaxRows }

NoFrame == [columns |-> {}, rows |-> <<>>]

----------------------------------------------------------------------------
(* main, lines 183-215.  The output directories are made when the module is
   loaded (lines 33-34); the three artifacts are the files written below.
   console holds the messages printed, by kind. *)

Init ==
    /\ pc = "main"
    /\ input_exists \in BOOLEAN
    /\ df = NoFrame
    /\ idx = 0
    /\ topic_map = <<>>
    /\ top_n = TOP_N
    /\ wordcloud_data = <<>>
    /\ json_file = Absent
    /\ csv_file = Absent
    /\ excel_file = Absent
    /\ console = <<>>

CheckInput_Ignore ==
    /\ pc = "main"
    /\ console' = Append(console, "start")
    /\ pc' = "read_csv"
    /\ UNCHANGED <<input_exists, df, idx, topic_map, top_n, wordcloud_data,
                   json_file, csv_file, excel_file>>

(* lines 185-192: the input is looked for first *)
CheckInput ==
    /\ pc = "main"
    /\ IF input_exists
       THEN /\ console' = Append(console, "start")
            /\ pc' = "read_csv"
       ELSE /\ console' = console \o <<"start", "missing_input">>
            /\ pc' = "done"
    /\ UNCHANGED <<input_exists, df, idx, topic_map, top_n, wordcloud_data,
                   json_file, csv_file, excel_file>>

(* lines 47-52: pd.read_csv gives a frame, or raises (no file, no parse) *)
ReadCsv(frames) ==
    /\ pc = "read_csv"
    /\ console' = Append(console, "reading")
    /\ \/ /\ input_exists
          /\ df' \in frames
          /\ pc' = "iterrows"
       \/ /\ df' = df
          /\ pc' = "raised"
    /\ idx' = 0
    /\ topic_map' = <<>>
    /\ UNCHANGED <<input_exists, top_n, wordcloud_data,
                   json_file, csv_file, excel_file>>

(* lines 55-75: one row of df.iterrows() *)
Row ==
    /\ pc = "iterrows"
    /\ idx < Len(df.rows)
    /\ topic_map' = process_row(topic_map, df, df.rows[idx + 1])
    /\ idx' = idx + 1
    /\ UNCHANGED <<pc, input_exists, df, top_n, wordcloud_data,
                   json_file, csv_file, excel_file, console>>

(* lines 77 and 195-196: the loop is over and topic_map is returned *)
Return ==
    /\ pc = "iterrows"
    /\ idx = Len(df.rows)
    /\ pc' = "generate"
    /\ console' = Append(console, "counted")
    /\ UNCHANGED <<input_exists, df, idx, topic_map, top_n, wordcloud_data,
                   json_file, csv_file, excel_file>>

(* lines 199-203: generate_wordcloud_data(topic_map, top_n) *)
Generate ==
    /\ pc = "generate"
    /\ wordcloud_data' = generate_wordcloud_data(topic_map, top_n)
    /\ pc' = "save_json"
    /\ console' = Append(console, "top")
    /\ UNCHANGED <<input_exists, df, idx, topic_map, top_n,
                   json_file, csv_file, excel_file>>

(* line 206: save_json, or an I/O error that leaves no file or a broken one *)
SaveJson ==
    /\ pc = "save_json"
    /\ \/ /\ json_file' = Written(json_output(wordcloud_data, topic_map))
          /\ console' = Append(console, "json_saved")
          /\ pc' = "save_csv"
       \/ /\ json_file' \in {Absent, Partial}
          /\ console' = console
          /\ pc' = "raised"
    /\ UNCHANGED <<input_exists, df, idx, topic_map, top_n, wordcloud_data,
                   csv_file, excel_file>>

SaveCsv_Swallow ==
    /\ pc = "save_csv"
    /\ \/ /\ csv_file' = Written(csv_output(wordcloud_data))
          /\ console' = Append(console, "csv_saved")
          /\ pc' = "save_excel"
       \/ /\ csv_file' \in {Absent, Partial}
          /\ console' = console
          /\ pc' = "save_excel"
    /\ UNCHANGED <<input_exists, df, idx, topic_map, top_n, wordcloud_data,
                   json_file, excel_file>>

(* line 207: save_csv, or an I/O error *)
SaveCsv ==
    /\ pc = "save_csv"
    /\ \/ /\ csv_file' = Written(csv_output(wordcloud_data))
          /\ console' = Append(console, "csv_saved")
          /\ pc' = "save_excel"
       \/ /\ csv_file' \in {Absent, Partial}
          /\ console' = console
          /\ pc' = "raised"
    /\ UNCHANGED <<input_exists, df, idx, topic_map, top_n, wordcloud_data,
                   json_file, excel_file>>

(* line 208: save_excel; a repos list holding a NaN makes ', '.join raise
   before the file is opened *)
SaveExcel ==
    /\ pc = "save_excel"
    /\ \/ /\ ~excel_raises(wordcloud_data, topic_map)
          /\ excel_file' = Written(excel_output(wordcloud_data, topic_map))
          /\ console' = Append(console, "excel_saved")
          /\ pc' = "finish"
       \/ /\ excel_raises(wordcloud_data, topic_map)
          /\ excel_file' = Absent
          /\ console' = console
          /\ pc' = "raised"
       \/ /\ ~excel_raises(wordcloud_data, topic_map)
          /\ excel_file' \in {Absent, Partial}
          /\ console' = console
          /\ pc' = "raised"
    /\ UNCHANGED <<input_exists, df, idx, topic_map, top_n, wordcloud_data,
                   json_file, csv_file>>

(* lines 210-215 *)
Finish ==
    /\ pc = "finish"
    /\ console' = Append(console, "complete")
    /\ pc' = "done"
    /\ UNCHANGED <<input_exists, df, idx, topic_map, top_n, wordcloud_data,
                   json_file, csv_file, excel_file>>

ReadCsvMain == ReadCsv(FramesOver(FewTopicSamples) \cup WideFrames)

Next ==
    \/ CheckInput
    \/ ReadCsvMain
    \/ Row
    \/ Return
    \/ Generate
    \/ SaveJson
    \/ SaveCsv
    \/ SaveExcel
    \/ Finish

Spec == Init /\ [][Next]_vars

----------------------------------------------------------------------------
(* count_topics_from_csv called on a file that exists *)

InitAgg ==
    /\ pc = "read_csv"
    /\ input_exists = TRUE
    /\ df = NoFrame
    /\ idx = 0
    /\ topic_map = <<>>
    /\ top_n = TOP_N
    /\ wordcloud_data = <<>>
    /\ json_file = Absent
    /\ csv_file = Absent
    /\ excel_file = Absent
    /\ console = <<>>

ReadCsvAgg == ReadCsv(FramesOver(TopicSamples))

NextAgg ==
    \/ ReadCsvAgg
    \/ Row
    \/ Return

SpecAgg == InitAgg /\ [][NextAgg]_vars

----------------------------------------------------------------------------
(* generate_wordcloud_data called with any top_n >= 0 on a map the aggregation
   can give *)

RankMaps ==
    { count_topics(f) : f \in WideFrames \cup FramesOver(FewTopicSamples) }

InitRank ==
    /\ pc = "generate"
    /\ input_exists = TRUE
    /\ df = NoFrame
    /\ idx = 0
    /\ topic_map \in RankMaps
    /\ top_n \in 0..MaxTopN
    /\ wordcloud_data = <<>>
    /\ json_file = Absent
    /\ csv_file = Absent
    /\ excel_file = Absent
    /\ console = <<>>

NextRank == Generate

SpecRank == InitRank /\ [][NextRank]_vars

----------------------------------------------------------------------------
(* What the claims speak of *)

Range(seq) == {seq[i] : i \in 1..Len(seq)}

IsNonEmptyName(cell) == cell.kind = "str" /\ cell.s # <<>>

RepoOfRow(i) == row_get(df, df.rows[i], "repo_name")

CellOfRow(i) == row_get(df, df.rows[i], "topics")

(* the trimmed non-empty pieces of the comma-split label list of row i; a
   missing or empty cell has none *)
PiecesOfRow(i) ==
    LET cell == CellOfRow(i)
    IN  IF cell.kind = "nan" \/ cell.s = <<>> THEN <<>>
        ELSE parse_topics(cell.s)

(* the places <<j>> of row i whose piece case-folds to key *)
PlacesInRow(i, key) ==
    LET pieces == PiecesOfRow(i)
    IN  {j \in 1..Len(pieces) : lower(pieces[j]) = key}

Contributes(i, key) == PlacesInRow(i, key) # {}

KeysOfRow(i) ==
    LET pieces == PiecesOfRow(i)
    IN  {lower(pieces[j]) : j \in 1..Len(pieces)}

Entries == 1..Len(topic_map)

Aggregating == pc \in {"iterrows", "generate"}

RowStep == pc = "iterrows" /\ idx' = idx + 1

CountOf(map, key) == IF has_key(map, key) THEN map[index_of(map, key)].count ELSE 0

ReposOf(map, key) == IF has_key(map, key) THEN map[index_of(map, key)].repos ELSE <<>>

IsPrefix(a, b) == Len(a) <= Len(b) /\ SubSeq(b, 1, Len(a)) = a

NoDuplicates(seq) == \A i, j \in 1..Len(seq) : i # j => seq[i] # seq[j]

Terminal == pc \in {"done", "raised"}

IsWritten(file) == file.state = "written"

----------------------------------------------------------------------------
RECURSIVE Occurrences(_, _)
(* how many pieces of the rows 1..i case-fold to key *)
Occurrences(key, i) ==
    IF i = 0 THEN 0
    ELSE Occurrences(key, i - 1) + Cardinality(PlacesInRow(i, key))

(* C1 (as stated): after any sequence of records, every count equals the
   number of records whose label list contains the label, case-insensitively,
   so that a record adds at most 1 to a count. *)
C1_CountIsRecords ==
    Aggregating =>
      \A e \in Entries :
        topic_map[e].count =
          Cardinality({i \in 1..idx : Contributes(i, topic_map[e].key)})

(* C1 (amended): after any sequence of records, every count equals the number
   of non-empty trimmed pieces, over all the records, that case-fold to the
   label's key: a record adds one per occurrence.  Every key that occurs has
   an entry. *)
C1_CountIsOccurrences ==
    Aggregating =>
      /\ \A e \in Entries :
           topic_map[e].count = Occurrences(topic_map[e].key, idx)
      /\ \A i \in 1..idx : \A key \in KeysOfRow(i) : has_key(topic_map, key)

C1_Witness ==
    /\ pc = "generate"
    /\ \E e \in Entries :
         /\ topic_map[e].count >= 3
         /\ Cardinality({i \in 1..idx : Contributes(i, topic_map[e].key)}) = 1

(* C2: a record with k non-empty pieces that fold to one key adds exactly k to
   that key's count, leaves exactly one entry under the key, whose display
   label, when the record creates it, is the first of those pieces, and adds
   the record's repository identifier to repos at most once: a new entry's
   repos is that single identifier when it is a non-empty name. *)
C2_RecordAddsK ==
    [][RowStep =>
        \A key \in KeysOfRow(idx') :
          LET places == PlacesInRow(idx', key)
              first  == CHOOSE j \in places : \A h \in places : j <= h
              repo   == RepoOfRow(idx')
              after  == topic_map'[index_of(topic_map', key)]
          IN  /\ Cardinality({e \in 1..Len(topic_map') :
                                topic_map'[e].key = key}) = 1
              /\ after.count = CountOf(topic_map, key) + Cardinality(places)
              /\ \/ after.repos = ReposOf(topic_map, key)
                 \/ after.repos = Append(ReposOf(topic_map, key), repo)
              /\ ~has_key(topic_map, key) =>
                   /\ after.topic = PiecesOfRow(idx')[first]
                   /\ IsNonEmptyName(repo) => after.repos = <<repo>>
      ]_vars

C2_Witness ==
    /\ Aggregating
    /\ idx = 1
    /\ Len(topic_map) = 1
    /\ Cardinality(PlacesInRow(1, topic_map[1].key)) = 3
    /\ topic_map[1].count = 3
    /\ topic_map[1].topic = <<"G", "o">>
    /\ topic_map[1].repos = <<RepoA>>

RECURSIVE ContributingRepos(_, _)
(* the distinct non-empty identifiers of the rows 1..i that contribute key, in
   the order of their first contribution *)
ContributingRepos(key, i) ==
    IF i = 0 THEN <<>>
    ELSE LET before == ContributingRepos(key, i - 1)
             repo   == RepoOfRow(i)
         IN  IF Contributes(i, key) /\ IsNonEmptyName(repo)
                  /\ repo \notin Range(before)
             THEN Append(before, repo)
             ELSE before

(* C3: in every state of the aggregation, every repos list has no duplicate,
   holds no empty or missing identifier, and is exactly the distinct non-empty
   identifiers of the records that contributed the label, in the order of
   their first contribution. *)
C3_ReposClean ==
    Aggregating =>
      \A e \in Entries :
        /\ NoDuplicates(topic_map[e].repos)
        /\ \A r \in Range(topic_map[e].repos) : IsNonEmptyName(r)
        /\ topic_map[e].repos = ContributingRepos(topic_map[e].key, idx)

PlaceInMap(name) == CHOOSE e \in Entries : topic_map[e].topic = name

(* C4: for every map and every top_n >= 0 the ranking has length
   min(top_n, number of labels), is sorted by count descending, lists equal
   counts in the order of the map (first encounter), and is the head of the
   order: a label left out ranks after every label kept. *)
C4_RankedTopN ==
    pc = "save_json" =>
      LET data == wordcloud_data
          kept == {data[i].name : i \in 1..Len(data)}
      IN  /\ Len(data) = Min(top_n, Len(topic_map))
          /\ \A i \in 1..Len(data) :
               \E e \in Entries :
                 /\ data[i].name = topic_map[e].topic
                 /\ data[i].count = topic_map[e].count
                 /\ data[i].value = topic_map[e].count
                 /\ data[i].repos = topic_map[e].repos
          /\ \A i, j \in 1..Len(data) :
               i < j =>
                 /\ data[i].count >= data[j].count
                 /\ data[i].count = data[j].count =>
                      PlaceInMap(data[i].name) < PlaceInMap(data[j].name)
          /\ \A e \in Entries :
               topic_map[e].topic \notin kept =>
                 \A i \in 1..Len(data) :
                   \/ data[i].count > topic_map[e].count
                   \/ /\ data[i].count = topic_map[e].count
                      /\ PlaceInMap(data[i].name) < e

C4_Witness ==
    /\ pc = "save_json"
    /\ top_n >= 2
    /\ top_n < Len(topic_map)
    /\ \E i \in 1..Len(wordcloud_data) :
         /\ i < Len(wordcloud_data)
         /\ wordcloud_data[i].count = wordcloud_data[i + 1].count
    /\ \E e \in Entries :
         /\ e < Len(topic_map)
         /\ topic_map[e].count < topic_map[e + 1].count

RECURSIVE FirstSpelling(_, _)
(* the first piece, rows top to bottom and pieces left to right from row i on,
   that case-folds to key *)
FirstSpelling(key, i) ==
    LET places == PlacesInRow(i, key)
    IN  IF places # {}
        THEN PiecesOfRow(i)[CHOOSE j \in places : \A h \in places : j <= h]
        ELSE FirstSpelling(key, i + 1)

(* C5: no two entries have labels that differ only in letter case: an entry is
   kept under the case-folded form of its label, and its display label is the
   spelling met first in scan order, whatever came later. *)
C5_MergedByCase ==
    Aggregating =>
      /\ \A e, f \in Entries :
           e # f => lower(topic_map[e].topic) # lower(topic_map[f].topic)
      /\ \A e \in Entries :
           /\ topic_map[e].key = lower(topic_map[e].topic)
           /\ \E i \in 1..idx : Contributes(i, topic_map[e].key)
           /\ topic_map[e].topic = FirstSpelling(topic_map[e].key, 1)

C5_Witness ==
    /\ pc = "generate"
    /\ idx = 2
    /\ \E e \in Entries :
         /\ topic_map[e].topic = <<"G", "o">>
         /\ \E j \in 1..Len(PiecesOfRow(2)) : PiecesOfRow(2)[j] = <<"g", "o">>
         /\ Contributes(1, topic_map[e].key)

(* C6 (as stated): a record whose topics field is missing, empty or not a
   string leaves the map unchanged and raises nothing. *)
C6_SkipsNonText ==
    [][RowStep =>
        LET cell == CellOfRow(idx')
        IN  (cell.kind = "nan" \/ cell.kind = "num" \/ cell.s = <<>>) =>
              topic_map' = topic_map /\ pc' = "iterrows"
      ]_vars

(* C6 (amended): a record whose topics field is missing (NaN) or the empty
   string leaves the map unchanged and raises nothing; a numeric cell is not
   skipped: the text str() gives for it is counted as a label. *)
C6_SkipsMissingOrEmpty ==
    [][RowStep =>
        LET cell == CellOfRow(idx')
        IN  /\ (cell.kind = "nan" \/ (cell.kind = "str" /\ cell.s = <<>>)) =>
                 topic_map' = topic_map /\ pc' = "iterrows"
            /\ cell.kind = "num" =>
                 /\ has_key(topic_map', cell.s)
                 /\ CountOf(topic_map', cell.s) = CountOf(topic_map, cell.s) + 1
                 /\ pc' = "iterrows"
      ]_vars

C6_Witness ==
    /\ Aggregating
    /\ idx = 2
    /\ CellOfRow(2).kind = "nan"
    /\ CellOfRow(1).kind = "num"
    /\ Len(topic_map) = 1
    /\ topic_map[1].count = 1

(* C7 (as stated): when main has ended, failures included, all three
   artifacts have been written or none has. *)
C7_AllOrNothing ==
    Terminal =>
      \/ IsWritten(json_file) /\ IsWritten(csv_file) /\ IsWritten(excel_file)
      \/ ~IsWritten(json_file) /\ ~IsWritten(csv_file) /\ ~IsWritten(excel_file)

(* C7 (amended): when main has ended, the artifacts written are a head of the
   order JSON, CSV, Excel: all three when no step failed, none when the input
   is absent or cannot be read, and otherwise those before the step that
   failed; what follows a failed step is untouched, and what was written holds
   the ranking of the one aggregation pass. *)
C7_WrittenInOrder ==
    Terminal =>
      /\ IsWritten(excel_file) => IsWritten(csv_file)
      /\ IsWritten(csv_file) => IsWritten(json_file)
      /\ ~IsWritten(json_file) => csv_file = Absent /\ excel_file = Absent
      /\ ~IsWritten(csv_file) => excel_file = Absent
      /\ pc = "done" /\ input_exists => IsWritten(excel_file)
      /\ pc = "done" /\ ~input_exists => json_file = Absent
      /\ IsWritten(excel_file) => pc = "done"
      /\ IsWritten(json_file) => json_file.content.data = wordcloud_data
      /\ IsWritten(csv_file) => Len(csv_file.content.rows) = Len(wordcloud_data)

C7_Witness ==
    /\ pc = "raised"
    /\ IsWritten(json_file)
    /\ csv_file = Partial
    /\ excel_file = Absent

(* C8: when the input file is absent, main finds it out first, reports it and
   ends: nothing is read, nothing is aggregated, no artifact is written. *)
C8_MissingInput ==
    ~input_exists =>
      /\ pc \in {"main", "done"}
      /\ pc = "done" => console = <<"start", "missing_input">>
      /\ df = NoFrame /\ idx = 0 /\ topic_map = <<>> /\ wordcloud_data = <<>>
      /\ json_file = Absent /\ csv_file = Absent /\ excel_file = Absent

C8_Witness == pc = "done" /\ ~input_exists

(* C9: after any prefix of the records every entry has count >= 1 and
   len(repos) <= count; and from one step to the next no entry is removed or
   moved, no count decreases, and a repos list only grows at its end. *)
C9_Monotone ==
    /\ [](\A e \in Entries :
            /\ topic_map[e].count >= 1
            /\ Len(topic_map[e].repos) <= topic_map[e].count)
    /\ [][/\ Len(topic_map') >= Len(topic_map)
          /\ \A e \in Entries :
               /\ topic_map'[e].key = topic_map[e].key
               /\ topic_map'[e].count >= topic_map[e].count
               /\ IsPrefix(topic_map[e].repos, topic_map'[e].repos)
         ]_vars

C9_Witness ==
    /\ pc = "generate"
    /\ idx = 2
    /\ \E e \in Entries :
         /\ Len(topic_map[e].repos) = 2
         /\ topic_map[e].count > 2

(* C10: the top-15 ranking of generate_wordcloud_data, which the JSON, the
   CSV and sheet one show, is the first min(15, number of labels) rows of the
   full ranking save_excel computes for sheet two, row for row; and the JSON
   stats are totalTopics = number of labels, top15Topics = min(15,
   totalTopics). *)
C10_TopIsHeadOfAll ==
    /\ IsWritten(json_file) =>
         /\ json_file.content.data = wordcloud_data
         /\ json_file.content.stats.totalTopics = Len(topic_map)
         /\ json_file.content.stats.top15Topics = Min(TOP_N, Len(topic_map))
    /\ IsWritten(excel_file) =>
         LET one == excel_file.content.sheet1
             two == excel_file.content.sheet2
         IN  /\ Len(two) = Len(topic_map)
             /\ Len(one) = Min(TOP_N, Len(two))
             /\ one = SubSeq(two, 1, Len(one))
             /\ \A i \in 1..Len(one) :
                  /\ one[i].label = wordcloud_data[i].name
                  /\ one[i].count = wordcloud_data[i].count
                  /\ one[i].repo_count = Len(wordcloud_data[i].repos)
             /\ \A i, j \in 1..Len(two) : i < j => two[i].count >= two[j].count

C10_Witness ==
    /\ pc = "done"
    /\ IsWritten(excel_file)
    /\ Len(topic_map) > TOP_N
    /\ Len(excel_file.content.sheet1) = TOP_N
    /\ Len(excel_file.content.sheet2) > TOP_N
    /\ \E e \in Entries :
         /\ e < Len(topic_map)
         /\ topic_map[e].count < topic_map[e + 1].count

====
